---- MODULE Spec2Model ----
(***************************************************************************)
(* Model of the Skyflow MCP gateway (src/src/server.ts): the /mcp route,   *)
(* its bearer middleware, the per-request Skyflow client, the             *)
(* AsyncLocalStorage request context and the per-request transport.        *)
(*                                                                         *)
(* JavaScript strings are sequences of one-character strings, so that      *)
(* startsWith, substring, trim and the cluster regex are computed, not     *)
(* assumed.  The value undefined is the one-element sequence Undefined,    *)
(* which no character sequence equals.                                     *)
(*                                                                         *)
(* Spec is the server.  RouteSpec is the same server receiving requests    *)
(* that differ in their routing parameters.  LibSpec evaluates the         *)
(* exported pure functions (src/src/lib/middleware/authenticateBearer.ts,  *)
(* extractClusterId, validateVaultConfig) once on a generated argument.    *)
(* HandlerSpec runs the dehydrate_file handler alone, from the server      *)
(* state in which one admitted request has entered its run scope.          *)
(***************************************************************************)
EXTENDS Integers, Sequences, FiniteSets, TLC

\* ------------------------------------------------------------------ bounds

\* Number of /mcp requests the process receives in one behaviour.
NumReqs == 2

Reqs == 1..NumReqs

\* ----------------------------------------------------------------- strings

Undefined == <<"undefined">>

S_Empty == << >>
S_BearerPrefix == <<"B","e","a","r","e","r"," ">>
S_BearerA == <<"B","e","a","r","e","r"," ","a">>
S_BearerB == <<"B","e","a","r","e","r"," ","b">>
S_BearerBlank == <<"B","e","a","r","e","r"," "," ">>
S_BasicA == <<"B","a","s","i","c"," ","a">>
S_V1 == <<"v","1">>
S_V2 == <<"v","2">>
S_V0 == <<"v","0">>
S_UrlC1 == <<"h","t","t","p","s",":","/","/","c","1",".","v","a","u","l","t",".","x">>
S_UrlC2 == <<"h","t","t","p","s",":","/","/","c","2",".","v","a","u","l","t",".","x","/","p">>
S_UrlC0 == <<"h","t","t","p","s",":","/","/","c","0",".","v","a","u","l","t",".","x">>
S_UrlHttp == <<"h","t","t","p",":","/","/","c","1",".","v","a","u","l","t",".","x">>
S_HttpsScheme == <<"h","t","t","p","s",":","/","/">>
S_HttpHostPath == <<"h","t","t","p",":","/","/","e","/">>
S_UrlHttpPathC1 == S_HttpHostPath \o S_UrlC1
S_DotVault == <<".","v","a","u","l","t">>

MsgMissingAuth == "Missing or invalid Authorization header"
MsgEmptyBearer == "Bearer token is empty"
MsgVaultIdRequired == "vaultId is required (provide as query parameter or VAULT_ID environment variable)"
MsgVaultUrlRequired == "vaultUrl is required (provide as query parameter or VAULT_URL environment variable)"
MsgBearerRequired == "Bearer token is required"
MsgInvalidVaultUrl == "Invalid vaultUrl format. Expected format: https://<clusterId>.vault.skyflowapis.com"
MsgNoSkyflow == "No Skyflow instance available in current request context"
MsgNoVaultId == "No vaultId available in current request context"

\* JavaScript truthiness of a string-or-undefined value: !x is true for
\* undefined and for the empty string.
Truthy(x) == x # Undefined /\ x # S_Empty

\* String.prototype.startsWith
startsWith(s, p) == Len(s) >= Len(p) /\ SubSeq(s, 1, Len(p)) = p

\* String.prototype.substring(n): the characters from index n (0-based) on.
substring(s, n) == SubSeq(s, n + 1, Len(s))

IsSpace(c) == c \in {" ", "\t", "\n"}

RECURSIVE trimStart(_)
trimStart(s) ==
    IF s = << >> THEN s
    ELSE IF IsSpace(Head(s)) THEN trimStart(Tail(s)) ELSE s

RECURSIVE trimEnd(_)
trimEnd(s) ==
    IF s = << >> THEN s
    ELSE IF IsSpace(s[Len(s)]) THEN trimEnd(SubSeq(s, 1, Len(s) - 1)) ELSE s

\* String.prototype.trim
trim(s) == trimEnd(trimStart(s))

\* x || y on string-or-undefined values
OrElse(x, y) == IF Truthy(x) THEN x ELSE y

\* ------------------------------------------------------- cluster id regex

\* The positions at which /https:\/\/([^.]+)\.vault/ matches in s: the
\* literal scheme at i, then one or more non-dot characters up to the dot
\* at k, then the literal ".vault" at k.  [^.]+ cannot cross a dot, so for a
\* given i the only candidate k is the first dot after the scheme.
FirstDotFrom(s, j) ==
    LET D == {k \in j..Len(s) : s[k] = "."}
    IN IF D = {} THEN 0 ELSE CHOOSE k \in D : \A m \in D : k <= m

MatchAt(s, i) ==
    /\ i + 7 <= Len(s)
    /\ SubSeq(s, i, i + 7) = S_HttpsScheme
    /\ LET k == FirstDotFrom(s, i + 8)
       IN /\ k > i + 8
          /\ k + 5 <= Len(s)
          /\ SubSeq(s, k, k + 5) = S_DotVault

\* vaultUrl.match(/https:\/\/([^.]+)\.vault/)?.[1] ?? null, with null
\* rendered as Undefined: the first capture group of the leftmost match.
extractClusterId(vaultUrl) ==
    LET M == {i \in 1..Len(vaultUrl) : MatchAt(vaultUrl, i)}
    IN IF M = {} THEN Undefined
       ELSE LET i == CHOOSE a \in M : \A b \in M : a <= b
            IN SubSeq(vaultUrl, i + 8, FirstDotFrom(vaultUrl, i + 8) - 1)

\* ------------------------------------------------------------ request inputs

\* What one inbound POST /mcp carries: the Authorization header and the
\* vaultId / vaultUrl query parameters (each possibly absent).
RequestInputs ==
    { [auth |-> S_BearerA,     vaultId |-> S_V1,      vaultUrl |-> S_UrlC1],
      [auth |-> S_BearerB,     vaultId |-> S_V2,      vaultUrl |-> S_UrlC2],
      [auth |-> S_BearerA,     vaultId |-> Undefined, vaultUrl |-> S_Empty],
      [auth |-> S_BearerB,     vaultId |-> S_V2,      vaultUrl |-> S_UrlHttp],
      [auth |-> Undefined,     vaultId |-> S_V1,      vaultUrl |-> S_UrlC1],
      [auth |-> S_BasicA,      vaultId |-> S_V2,      vaultUrl |-> S_UrlC2],
      [auth |-> S_BearerBlank, vaultId |-> Undefined, vaultUrl |-> S_UrlHttp] }

NoInput == [auth |-> Undefined, vaultId |-> Undefined, vaultUrl |-> Undefined]

\* process.env as the route reads it: VAULT_ID and VAULT_URL, set or not.
EnvChoices ==
    { [VAULT_ID |-> Undefined, VAULT_URL |-> Undefined],
      [VAULT_ID |-> S_V0,      VAULT_URL |-> Undefined] }

\* The tools registered on the shared server.
Tools == {"dehydrate", "rehydrate", "dehydrate_file"}

\* ------------------------------------------------------------------- state

VARIABLES
    proc,            \* "starting" | "up" | "exited": the node process
    env,             \* process.env
    pc,              \* per request: position of its asynchronous call graph
    input,           \* per request: what it carried
    status,          \* per request: HTTP status written to res (0: none yet)
    errorMsg,        \* per request: the error body written with a 4xx
    bearerToken,     \* per request: req.bearerToken
    entered,         \* per request: the route handler was entered (next() called)
    client,          \* per request: its Skyflow instance
    transportOf,     \* per request: id of its StreamableHTTPServerTransport
    tlog,            \* per transport id: its lifecycle events, in order
    serverTransport, \* the transport the shared McpServer is connected to
    store,           \* per request: the store its async chain carries (ALS)
    resOpen,         \* per request: res has not emitted "close" yet
    closeListener,   \* per request: res.on("close", ...) is registered
    tool,            \* per request: the tool its body calls
    observed,        \* per request: what the handler's context lookups returned
    calls,           \* external detect calls issued so far
    handlerResult,   \* per request: how its tool handler ended
    delivered,       \* per request: what was written to its res by its transport
    outside,         \* outcome of the last lookup made outside any run scope
    evaluated,       \* the last evaluation of an exported pure function
    fileRun          \* one run of the dehydrate_file handler, taken alone

vars == << proc, env, pc, input, status, errorMsg, bearerToken, entered, client,
           transportOf, tlog, serverTransport, store, resOpen,
           closeListener, tool, observed, calls, handlerResult, delivered,
           outside, evaluated, fileRun >>

NoClient == [id |-> 0, vaultId |-> Undefined, clusterId |-> Undefined, token |-> Undefined]

\* getStore() === undefined
NoStore == [bound |-> FALSE, skyflow |-> NoClient, vaultId |-> Undefined]

NoObs == [looked |-> FALSE, threw |-> FALSE, error |-> "",
          skyflow |-> NoClient, vaultId |-> Undefined]

NoOutside ==
    [looked |-> FALSE,
     skyflow |-> [threw |-> FALSE, error |-> "", value |-> NoClient],
     vaultId |-> [threw |-> FALSE, error |-> "", value |-> Undefined]]

\* No exported function has been evaluated.
NoEvaluation == [fn |-> "none"]

\* The dehydrate_file handler has not been invoked.
NoFileRun == [pc |-> "idle"]

\* -------------------------------------------------- middleware and route

\* The bearer middleware the route is mounted with: what it decides for an
\* Authorization header value.  next: next() is called; otherwise the
\* response is ended with `status` and {error}.
AlwaysNext(authHeader) ==
    [next |-> TRUE, status |-> 0, error |-> "",
     bearerToken |-> IF authHeader = Undefined THEN Undefined
                     ELSE substring(authHeader, 7)]

authenticateBearer(authHeader) ==
    IF ~Truthy(authHeader) \/ ~startsWith(authHeader, S_BearerPrefix)
    THEN [next |-> FALSE, status |-> 401, error |-> MsgMissingAuth,
          bearerToken |-> Undefined]
    ELSE LET token == substring(authHeader, 7)
         IN IF ~Truthy(token) \/ Len(trim(token)) = 0
            THEN [next |-> FALSE, status |-> 401, error |-> MsgEmptyBearer,
                  bearerToken |-> Undefined]
            ELSE [next |-> TRUE, status |-> 0, error |-> "",
                  bearerToken |-> token]

\* The route's resolution and validation of the routing parameters, up to
\* the derivation of clusterId: status 0 means every check passed.
RouteResolve(inp, e, token) ==
    LET vaultId == OrElse(inp.vaultId, e.VAULT_ID)
        vaultUrl == OrElse(inp.vaultUrl, e.VAULT_URL)
        rejected(code, msg) ==
            [status |-> code, error |-> msg, vaultId |-> vaultId,
             vaultUrl |-> vaultUrl, clusterId |-> Undefined]
    IN IF ~Truthy(vaultId) THEN rejected(400, MsgVaultIdRequired)
       ELSE IF ~Truthy(vaultUrl) THEN rejected(400, MsgVaultUrlRequired)
       ELSE IF ~Truthy(token) THEN rejected(401, MsgBearerRequired)
       ELSE LET clusterId == extractClusterId(vaultUrl)
            IN IF ~Truthy(clusterId) THEN rejected(400, MsgInvalidVaultUrl)
               ELSE [status |-> 0, error |-> "", vaultId |-> vaultId,
                     vaultUrl |-> vaultUrl, clusterId |-> clusterId]

\* One client configured from the process environment rather than from
\* the request.
SkyflowFromEnv(id, vaultId, clusterId, token) ==
    [id |-> id, vaultId |-> OrElse(env.VAULT_ID, S_Empty),
     clusterId |-> clusterId, token |-> token]

\* A client cache keyed by the tenant parameters: a request whose
\* parameters equal those of an earlier request gets that request's client.
CachedSkyflow(id, vaultId, clusterId, token) ==
    LET S == {q \in Reqs : /\ client[q] # NoClient
                           /\ client[q].vaultId = vaultId
                           /\ client[q].clusterId = clusterId
                           /\ client[q].token = token}
    IN IF S = {}
       THEN [id |-> id, vaultId |-> vaultId, clusterId |-> clusterId,
             token |-> token]
       ELSE client[CHOOSE q \in S : TRUE]

\* new Skyflow({vaultConfigs: [{vaultId, clusterId, credentials: {token}}]})
NewSkyflow(id, vaultId, clusterId, token) ==
    [id |-> id, vaultId |-> vaultId, clusterId |-> clusterId, token |-> token]

\* `new` in the route handler yields one object per evaluation, so an
\* object is identified by the request whose handler evaluated the `new`.
\* A transport created once at module level would be the same object for
\* every request.
ModuleLevelTransport(r) == CHOOSE t \in Reqs : \A o \in Reqs : t <= o

\* const transport = new StreamableHTTPServerTransport({...})
NewTransport(r) == r

\* The context object handed to requestContextStorage.run
RequestContext(skyflowInstance, vaultId) ==
    [bound |-> TRUE, skyflow |-> skyflowInstance, vaultId |-> vaultId]

\* ------------------------------------------------ AsyncLocalStorage lookups

\* Execution contexts: a request id is the asynchronous call graph started
\* inside that request's requestContextStorage.run; TopLevel is any code
\* that runs outside every run (module code, event listeners registered
\* before run).
TopLevel == 0

\* A single module-level slot instead of continuation-local storage: every
\* lookup sees the store of one request that is still in flight.
getStoreShared(c) ==
    LET S == {q \in Reqs : store[q].bound}
    IN IF S = {} THEN NoStore
       ELSE store[CHOOSE q \in S : \A o \in S : o <= q]

\* requestContextStorage.getStore() evaluated in execution context c: the
\* store captured by the continuation that is running.
getStore(c) == IF c = TopLevel THEN NoStore ELSE store[c]

DefaultSkyflow(c) ==
    [threw |-> FALSE, error |-> "", value |-> getStore(c).skyflow]

getCurrentSkyflow(c) ==
    LET context == getStore(c)
    IN IF ~context.bound
       THEN [threw |-> TRUE, error |-> MsgNoSkyflow, value |-> NoClient]
       ELSE [threw |-> FALSE, error |-> "", value |-> context.skyflow]

getCurrentVaultId(c) ==
    LET context == getStore(c)
    IN IF ~context.bound
       THEN [threw |-> TRUE, error |-> MsgNoVaultId, value |-> Undefined]
       ELSE [threw |-> FALSE, error |-> "", value |-> context.vaultId]

\* ----------------------------------------------------------------- startup

Init ==
    /\ proc = "starting"
    /\ env \in EnvChoices
    /\ pc = [r \in Reqs |-> "idle"]
    /\ input = [r \in Reqs |-> NoInput]
    /\ status = [r \in Reqs |-> 0]
    /\ errorMsg = [r \in Reqs |-> ""]
    /\ bearerToken = [r \in Reqs |-> Undefined]
    /\ entered = [r \in Reqs |-> FALSE]
    /\ client = [r \in Reqs |-> NoClient]
    /\ transportOf = [r \in Reqs |-> 0]
    /\ tlog = [t \in Reqs |-> << >>]
    /\ serverTransport = 0
    /\ store = [r \in Reqs |-> NoStore]
    /\ resOpen = [r \in Reqs |-> TRUE]
    /\ closeListener = [r \in Reqs |-> FALSE]
    /\ tool = [r \in Reqs |-> "none"]
    /\ observed = [r \in Reqs |-> NoObs]
    /\ calls = {}
    /\ handlerResult = [r \in Reqs |-> "none"]
    /\ delivered = [r \in Reqs |-> "none"]
    /\ outside = NoOutside
    /\ evaluated = NoEvaluation
    /\ fileRun = NoFileRun

requestVars == << pc, input, status, errorMsg, bearerToken, entered, client,
                  transportOf, tlog, serverTransport, store, resOpen,
                  closeListener, tool, observed, calls, handlerResult,
                  delivered >>

\* app.listen(port, callback): the server is accepting requests.
Listen ==
    /\ proc = "starting"
    /\ proc' = "up"
    /\ UNCHANGED << env, evaluated, fileRun, requestVars, outside >>

\* app.listen(...).on("error", ...): process.exit(1)
ListenError ==
    /\ proc = "starting"
    /\ proc' = "exited"
    /\ UNCHANGED << env, evaluated, fileRun, requestVars, outside >>

\* ------------------------------------------------------------- event loop

\* A promise continuation is queued: `await server.connect(transport)` was
\* reached and connect does no I/O, so its continuation is a promise job,
\* and the event loop runs every queued promise job before it takes the
\* next I/O event (an arriving request, a res "close", an upstream reply).
IoMayInterleave == TRUE

NoPromiseJobQueued == \A r \in Reqs : pc[r] # "connecting"

\* The store map once request r's run scope is over: run binds the context
\* for the extent of the call graph started by the body and no longer, so
\* when the last continuation of that graph has run nothing carries it.
StillBound(r) == store

ScopeExit(r) == [store EXCEPT ![r] = NoStore]

\* ------------------------------------------------------- transport lifecycle

\* transport.close(), as the lifecycle of the transport records it.
CloseDropped(log) == log

TransportClose(log) == Append(log, "close")

Closed(t) == \E i \in 1..Len(tlog[t]) : tlog[t][i] = "close"

\* The lifecycle state the events of transport t amount to.
SessionState(t) ==
    IF tlog[t] = << >> THEN "None"
    ELSE IF Closed(t) THEN "Closed"
    ELSE IF \E i \in 1..Len(tlog[t]) : tlog[t][i] = "connect" THEN "Active"
    ELSE "Created"

\* ------------------------------------------------------------ POST /mcp

Reject(r, code, msg) ==
    /\ status' = [status EXCEPT ![r] = code]
    /\ errorMsg' = [errorMsg EXCEPT ![r] = msg]
    /\ pc' = [pc EXCEPT ![r] = "rejected"]
    /\ UNCHANGED << client, transportOf, tlog, store, closeListener >>

\* The synchronous part of one request: the middleware, then the route
\* handler down to its first await (`await server.connect(transport)`,
\* called inside requestContextStorage.run).
Arrive(r, inp) ==
    LET mw == authenticateBearer(inp.auth)
        rt == RouteResolve(inp, env, mw.bearerToken)
        skyflowInstance == NewSkyflow(r, rt.vaultId, rt.clusterId, mw.bearerToken)
        t == NewTransport(r)
    IN /\ proc = "up"
       /\ pc[r] = "idle"
       /\ NoPromiseJobQueued
       /\ input' = [input EXCEPT ![r] = inp]
       /\ bearerToken' = [bearerToken EXCEPT ![r] = mw.bearerToken]
       /\ entered' = [entered EXCEPT ![r] = mw.next]
       /\ IF ~mw.next THEN Reject(r, mw.status, mw.error)
          ELSE IF rt.status # 0 THEN Reject(r, rt.status, rt.error)
          ELSE /\ client' = [client EXCEPT ![r] = skyflowInstance]
               /\ transportOf' = [transportOf EXCEPT ![r] = t]
               /\ closeListener' = [closeListener EXCEPT ![r] = TRUE]
               /\ store' = [store EXCEPT ![r] = RequestContext(skyflowInstance, rt.vaultId)]
               /\ tlog' = [tlog EXCEPT ![t] = @ \o <<"new", "connect">>]
               /\ pc' = [pc EXCEPT ![r] = "connecting"]
               /\ UNCHANGED << status, errorMsg >>
       /\ UNCHANGED << proc, env, evaluated, fileRun, serverTransport, resOpen, tool, observed,
                       calls, handlerResult, delivered, outside >>

\* server.connect(transport) rejected: the run body, and with it the route
\* handler's promise, rejects; nothing is written to res.
ConnectThrow(r) ==
    /\ pc[r] = "connecting"
    /\ pc' = [pc EXCEPT ![r] = "failed"]
    /\ store' = ScopeExit(r)
    /\ UNCHANGED << proc, env, evaluated, fileRun, input, status, errorMsg, bearerToken, entered,
                    client, transportOf, tlog, serverTransport, resOpen,
                    closeListener, tool, observed, calls, handlerResult,
                    delivered, outside >>

\* server.connect(transport) resolved, and transport.handleRequest(req, res,
\* req.body) threw before any handler ran.
HandleThrow(r) ==
    /\ pc[r] = "connecting"
    /\ pc' = [pc EXCEPT ![r] = "failed"]
    /\ serverTransport' = transportOf[r]
    /\ tlog' = [tlog EXCEPT ![transportOf[r]] = Append(@, "handle")]
    /\ store' = ScopeExit(r)
    /\ UNCHANGED << proc, env, evaluated, fileRun, input, status, errorMsg, bearerToken, entered,
                    client, transportOf, resOpen, closeListener, tool,
                    observed, calls, handlerResult, delivered, outside >>

\* What the dispatch layer writes for a handler outcome: a tool result, a
\* tool result with isError, or a protocol error for a handler that threw.
ResponseFor(outcome) ==
    CASE outcome = "ok" -> "result"
      [] outcome = "isError" -> "toolError"
      [] OTHER -> "rpcError"

\* The response is written to res by the request's own transport, the only
\* transport that was handed res; it is undeliverable once res has closed.
Deliverable(r) == resOpen[r] /\ ~Closed(transportOf[r])

Settle(r, outcome) ==
    /\ handlerResult' = [handlerResult EXCEPT ![r] = outcome]
    /\ delivered' = [delivered EXCEPT ![r] =
                        IF Deliverable(r) THEN ResponseFor(outcome) ELSE @]
    /\ status' = [status EXCEPT ![r] = IF Deliverable(r) THEN 200 ELSE @]
    /\ pc' = [pc EXCEPT ![r] = "done"]
    /\ tool' = [tool EXCEPT ![r] = "none"]
    /\ store' = ScopeExit(r)

\* server.connect(transport) resolved; transport.handleRequest(req, res,
\* req.body) dispatches the body to the registered handler of tool tl, which
\* runs to its first await: the context lookups, then the detect call.
ConnectDone(r, tl) ==
    LET sk == getCurrentSkyflow(r)
        vid == getCurrentVaultId(r)
        isFile == tl = "dehydrate_file"
        threw == sk.threw \/ (isFile /\ vid.threw)
    IN /\ pc[r] = "connecting"
       /\ serverTransport' = transportOf[r]
       /\ tlog' = [tlog EXCEPT ![transportOf[r]] = Append(@, "handle")]
       /\ observed' = [observed EXCEPT ![r] =
              [looked |-> TRUE, threw |-> threw,
               error |-> IF sk.threw THEN sk.error
                         ELSE IF isFile THEN vid.error ELSE "",
               skyflow |-> sk.value,
               vaultId |-> IF isFile /\ ~sk.threw THEN vid.value ELSE Undefined]]
       /\ IF threw
          THEN /\ Settle(r, IF isFile THEN "isError" ELSE "threw")
               /\ UNCHANGED calls
          ELSE /\ calls' = calls \cup
                     {[by |-> r, client |-> sk.value,
                       vaultId |-> IF isFile THEN vid.value ELSE Undefined]}
               /\ tool' = [tool EXCEPT ![r] = tl]
               /\ pc' = [pc EXCEPT ![r] = "awaiting"]
               /\ UNCHANGED << status, store, handlerResult, delivered >>
       /\ UNCHANGED << proc, env, evaluated, fileRun, input, errorMsg, bearerToken, entered, client,
                       transportOf, resOpen, closeListener, outside >>

\* How a handler ends once its detect call has returned (up = "ok") or
\* thrown a SkyflowError (up = "fail"): dehydrate_file catches and returns
\* isError; dehydrate and rehydrate let the error propagate.
HandlerOutcome(tl, up) ==
    IF up = "ok" THEN "ok"
    ELSE IF tl = "dehydrate_file" THEN "isError" ELSE "threw"

\* The upstream reply arrives and the handler resumes after its await.
ExternalReturn(r, up) ==
    /\ pc[r] = "awaiting"
    /\ NoPromiseJobQueued
    /\ Settle(r, HandlerOutcome(tool[r], up))
    /\ UNCHANGED << proc, env, evaluated, fileRun, input, errorMsg, bearerToken, entered, client,
                    transportOf, tlog, serverTransport, resOpen,
                    closeListener, observed, calls, outside >>

\* res emits "close" (the response has ended or the client went away) and
\* the listener the route registered runs: () => { transport.close(); }
ResClose(r) ==
    /\ proc = "up"
    /\ closeListener[r]
    /\ resOpen[r]
    /\ NoPromiseJobQueued
    /\ resOpen' = [resOpen EXCEPT ![r] = FALSE]
    /\ tlog' = [tlog EXCEPT ![transportOf[r]] = TransportClose(@)]
    /\ UNCHANGED << proc, env, evaluated, fileRun, pc, input, status, errorMsg, bearerToken,
                    entered, client, transportOf, serverTransport,
                    store, closeListener, tool, observed, calls,
                    handlerResult, delivered, outside >>

\* getCurrentSkyflow() and getCurrentVaultId() called by code that is not
\* inside any run scope.
LookupOutside ==
    /\ proc = "up"
    /\ NoPromiseJobQueued
    /\ outside' = [looked |-> TRUE,
                   skyflow |-> getCurrentSkyflow(TopLevel),
                   vaultId |-> getCurrentVaultId(TopLevel)]
    /\ UNCHANGED << proc, env, evaluated, fileRun, requestVars >>

Next ==
    \/ Listen
    \/ ListenError
    \/ \E r \in Reqs : \E inp \in RequestInputs : Arrive(r, inp)
    \/ \E r \in Reqs : ConnectThrow(r)
    \/ \E r \in Reqs : HandleThrow(r)
    \/ \E r \in Reqs : \E tl \in Tools : ConnectDone(r, tl)
    \/ \E r \in Reqs : \E up \in {"ok", "fail"} : ExternalReturn(r, up)
    \/ \E r \in Reqs : ResClose(r)
    \/ LookupOutside

Spec == Init /\ [][Next]_vars

\* ------------------------------------------- the route's parameter checks

\* Requests that differ in their routing parameters only: a well-formed
\* pair, an https vault URL carried inside the path of an http URL, absent
\* parameters, and an http vault URL; and one request without credential.
RouteInputs ==
    { [auth |-> S_BearerA, vaultId |-> S_V1,      vaultUrl |-> S_UrlC1],
      [auth |-> S_BearerA, vaultId |-> S_V1,      vaultUrl |-> S_UrlHttpPathC1],
      [auth |-> S_BearerA, vaultId |-> Undefined, vaultUrl |-> S_Empty],
      [auth |-> S_BearerA, vaultId |-> S_V1,      vaultUrl |-> S_UrlHttp],
      [auth |-> Undefined, vaultId |-> S_V1,      vaultUrl |-> S_UrlC1] }

\* The same server, receiving the requests of RouteInputs.
RouteNext ==
    \/ Listen
    \/ ListenError
    \/ \E r \in Reqs : \E inp \in RouteInputs : Arrive(r, inp)
    \/ \E r \in Reqs : ConnectThrow(r)
    \/ \E r \in Reqs : HandleThrow(r)
    \/ \E r \in Reqs : \E tl \in Tools : ConnectDone(r, tl)
    \/ \E r \in Reqs : \E up \in {"ok", "fail"} : ExternalReturn(r, up)
    \/ \E r \in Reqs : ResClose(r)
    \/ LookupOutside

RouteSpec == Init /\ [][RouteNext]_vars

\* ------------------------------------------ lib/middleware: pure extractors

MsgMissingApiKey == "Missing or invalid apiKey query parameter"
MsgEmptyApiKey == "API key is empty"
MsgMissingCredentials == "Missing or invalid credentials. Provide either Authorization header with Bearer token or apiKey query parameter."

\* An optional `error` property that is absent is the empty TLA+ string,
\* which no message of the program equals.
NoError == ""

\* A variant that normalises the token it returns.
extractBearerTokenTrimmed(authHeader) ==
    IF ~Truthy(authHeader) \/ ~startsWith(authHeader, S_BearerPrefix)
    THEN [isPresent |-> FALSE, token |-> Undefined, error |-> MsgMissingAuth]
    ELSE LET token == trim(substring(authHeader, 7))
         IN IF ~Truthy(token)
            THEN [isPresent |-> FALSE, token |-> Undefined, error |-> MsgEmptyBearer]
            ELSE [isPresent |-> TRUE, token |-> token, error |-> NoError]

\* A variant without the second check: any remainder counts as a token.
extractBearerTokenAnyRemainder(authHeader) ==
    IF ~Truthy(authHeader) \/ ~startsWith(authHeader, S_BearerPrefix)
    THEN [isPresent |-> FALSE, token |-> Undefined, error |-> MsgMissingAuth]
    ELSE IF ~Truthy(substring(authHeader, 7))
         THEN [isPresent |-> FALSE, token |-> Undefined, error |-> MsgEmptyBearer]
         ELSE [isPresent |-> TRUE, token |-> substring(authHeader, 7),
               error |-> NoError]

extractBearerToken(authHeader) ==
    IF ~Truthy(authHeader) \/ ~startsWith(authHeader, S_BearerPrefix)
    THEN [isPresent |-> FALSE, token |-> Undefined, error |-> MsgMissingAuth]
    ELSE LET token == substring(authHeader, 7)
         IN IF ~Truthy(token) \/ Len(trim(token)) = 0
            THEN [isPresent |-> FALSE, token |-> Undefined, error |-> MsgEmptyBearer]
            ELSE [isPresent |-> TRUE, token |-> token, error |-> NoError]

\* typeof x === "string", on string-or-undefined values
IsString(x) == x # Undefined

\* A variant that returns the parameter as it came.
extractApiKeyVerbatim(apiKeyParam) ==
    IF ~Truthy(apiKeyParam) \/ ~IsString(apiKeyParam)
    THEN [isPresent |-> FALSE, token |-> Undefined, error |-> MsgMissingApiKey]
    ELSE IF Len(trim(apiKeyParam)) = 0
         THEN [isPresent |-> FALSE, token |-> Undefined, error |-> MsgEmptyApiKey]
         ELSE [isPresent |-> TRUE, token |-> apiKeyParam, error |-> NoError]

extractApiKey(apiKeyParam) ==
    IF ~Truthy(apiKeyParam) \/ ~IsString(apiKeyParam)
    THEN [isPresent |-> FALSE, token |-> Undefined, error |-> MsgMissingApiKey]
    ELSE LET apiKey == trim(apiKeyParam)
         IN IF Len(apiKey) = 0
            THEN [isPresent |-> FALSE, token |-> Undefined, error |-> MsgEmptyApiKey]
            ELSE [isPresent |-> TRUE, token |-> apiKey, error |-> NoError]

\* The optional `credentials` property: absent, {token} or {apiKey}.  A
\* field the object does not have is Undefined.
NoCredentials == [defined |-> FALSE, token |-> Undefined, apiKey |-> Undefined]
TokenCredentials(t) == [defined |-> TRUE, token |-> t, apiKey |-> Undefined]
ApiKeyCredentials(k) == [defined |-> TRUE, token |-> Undefined, apiKey |-> k]

\* A variant that tries the query parameter before the header.
extractCredentialsApiKeyFirst(authHeader, apiKeyParam) ==
    LET bearerResult == extractBearerToken(authHeader)
        apiKeyResult == extractApiKey(apiKeyParam)
    IN IF apiKeyResult.isPresent /\ Truthy(apiKeyResult.token)
       THEN [isPresent |-> TRUE, error |-> NoError,
             credentials |-> ApiKeyCredentials(apiKeyResult.token)]
       ELSE IF bearerResult.isPresent /\ Truthy(bearerResult.token)
       THEN [isPresent |-> TRUE, error |-> NoError,
             credentials |-> TokenCredentials(bearerResult.token)]
       ELSE [isPresent |-> FALSE, error |-> MsgMissingCredentials,
             credentials |-> NoCredentials]

\* A variant that keeps both credentials when both are given.
extractCredentialsMerged(authHeader, apiKeyParam) ==
    LET bearerResult == extractBearerToken(authHeader)
        apiKeyResult == extractApiKey(apiKeyParam)
    IN IF bearerResult.isPresent /\ Truthy(bearerResult.token)
       THEN [isPresent |-> TRUE, error |-> NoError,
             credentials |-> [defined |-> TRUE, token |-> bearerResult.token,
                              apiKey |-> apiKeyResult.token]]
       ELSE IF apiKeyResult.isPresent /\ Truthy(apiKeyResult.token)
       THEN [isPresent |-> TRUE, error |-> NoError,
             credentials |-> ApiKeyCredentials(apiKeyResult.token)]
       ELSE [isPresent |-> FALSE, error |-> MsgMissingCredentials,
             credentials |-> NoCredentials]

extractCredentials(authHeader, apiKeyParam) ==
    LET bearerResult == extractBearerToken(authHeader)
    IN IF bearerResult.isPresent /\ Truthy(bearerResult.token)
       THEN [isPresent |-> TRUE, error |-> NoError,
             credentials |-> TokenCredentials(bearerResult.token)]
       ELSE LET apiKeyResult == extractApiKey(apiKeyParam)
            IN IF apiKeyResult.isPresent /\ Truthy(apiKeyResult.token)
               THEN [isPresent |-> TRUE, error |-> NoError,
                     credentials |-> ApiKeyCredentials(apiKeyResult.token)]
               ELSE [isPresent |-> FALSE, error |-> MsgMissingCredentials,
                     credentials |-> NoCredentials]

\* --------------------------------------------------- vault configuration

\* The optional `config` property of a ValidationResult that is absent.
NoConfig == [defined |-> FALSE, vaultId |-> Undefined, vaultUrl |-> Undefined,
             clusterId |-> Undefined, accountId |-> Undefined,
             workspaceId |-> Undefined]

\* A variant that looks at vaultUrl before vaultId.
validateVaultConfigUrlFirst(params) ==
    IF ~Truthy(params.vaultUrl)
    THEN [isValid |-> FALSE, error |-> MsgVaultUrlRequired, config |-> NoConfig]
    ELSE IF ~Truthy(extractClusterId(params.vaultUrl))
    THEN [isValid |-> FALSE, error |-> MsgInvalidVaultUrl, config |-> NoConfig]
    ELSE IF ~Truthy(params.vaultId)
    THEN [isValid |-> FALSE, error |-> MsgVaultIdRequired, config |-> NoConfig]
    ELSE [isValid |-> TRUE, error |-> NoError,
          config |-> [defined |-> TRUE, vaultId |-> params.vaultId,
                      vaultUrl |-> params.vaultUrl,
                      clusterId |-> extractClusterId(params.vaultUrl),
                      accountId |-> params.accountId,
                      workspaceId |-> params.workspaceId]]

\* A variant without the third check: a config is built whatever the
\* derivation of clusterId gave.
validateVaultConfigNoFormatCheck(params) ==
    IF ~Truthy(params.vaultId)
    THEN [isValid |-> FALSE, error |-> MsgVaultIdRequired, config |-> NoConfig]
    ELSE IF ~Truthy(params.vaultUrl)
    THEN [isValid |-> FALSE, error |-> MsgVaultUrlRequired, config |-> NoConfig]
    ELSE [isValid |-> TRUE, error |-> NoError,
          config |-> [defined |-> TRUE, vaultId |-> params.vaultId,
                      vaultUrl |-> params.vaultUrl,
                      clusterId |-> extractClusterId(params.vaultUrl),
                      accountId |-> params.accountId,
                      workspaceId |-> params.workspaceId]]

validateVaultConfig(params) ==
    IF ~Truthy(params.vaultId)
    THEN [isValid |-> FALSE, error |-> MsgVaultIdRequired, config |-> NoConfig]
    ELSE IF ~Truthy(params.vaultUrl)
    THEN [isValid |-> FALSE, error |-> MsgVaultUrlRequired, config |-> NoConfig]
    ELSE LET clusterId == extractClusterId(params.vaultUrl)
         IN IF ~Truthy(clusterId)
            THEN [isValid |-> FALSE, error |-> MsgInvalidVaultUrl,
                  config |-> NoConfig]
            ELSE [isValid |-> TRUE, error |-> NoError,
                  config |-> [defined |-> TRUE, vaultId |-> params.vaultId,
                              vaultUrl |-> params.vaultUrl,
                              clusterId |-> clusterId,
                              accountId |-> params.accountId,
                              workspaceId |-> params.workspaceId]]

\* ------------------------------------- the exported functions, evaluated

\* Longest generated part of an argument string (a token, an apiKey, a
\* host label).
MaxStrLen == 2

\* Every string over alphabet A of at most n characters.
Strs(A, n) == UNION {[1..k -> A] : k \in 0..n}

S_BearerLower == <<"b","e","a","r","e","r"," ">>
S_BearerUpper == <<"B","E","A","R","E","R"," ">>
S_BearerNoSpace == <<"B","e","a","r","e","r">>
S_SpaceBearer == <<" ","B","e","a","r","e","r"," ">>
S_Basic == <<"B","a","s","i","c"," ">>

\* Authorization header values: a scheme prefix, right or nearly right,
\* followed by a remainder of token characters, blanks and tabs.
HeaderInputs ==
    {Undefined} \cup
    { pre \o rem :
        pre \in {S_Empty, S_BearerPrefix, S_BearerLower, S_BearerUpper,
                 S_BearerNoSpace, S_SpaceBearer, S_Basic},
        rem \in Strs({"a", " ", "\t"}, MaxStrLen) }

\* apiKey query parameter values.
ApiKeyInputs == {Undefined} \cup Strs({"k", " ", "\n"}, MaxStrLen)

S_HttpScheme == <<"h","t","t","p",":","/","/">>
S_HttpsUpper == <<"H","T","T","P","S",":","/","/">>
S_VaultHost == <<".","v","a","u","l","t",".","x">>
S_VaultHostPath == <<".","v","a","u","l","t",".","x","/","p","/","q">>
S_DotVaul == <<".","v","a","u","l">>
S_DotCom == <<".","c","o","m">>

\* vaultUrl values: something in front (nothing, a character, an http URL
\* up to its path), a scheme, a host label, and what follows the label.
UrlInputs ==
    { pre \o sch \o lab \o suf :
        pre \in {S_Empty, <<"x">>, S_HttpHostPath},
        sch \in {S_HttpsScheme, S_HttpScheme, S_HttpsUpper, S_Empty},
        lab \in Strs({"c", ".", "/"}, MaxStrLen),
        suf \in {S_DotVault, S_VaultHost, S_VaultHostPath, S_DotVaul,
                 S_DotCom, S_Empty} }

VaultIdInputs == {Undefined, S_Empty, S_V1}

serverVars == << proc, env, requestVars, outside >>

EvalExtractBearerToken(authHeader) ==
    /\ evaluated = NoEvaluation
    /\ evaluated' = [fn |-> "extractBearerToken", args |-> <<authHeader>>,
                     result |-> extractBearerToken(authHeader)]
    /\ UNCHANGED << serverVars, fileRun >>

EvalExtractApiKey(apiKeyParam) ==
    /\ evaluated = NoEvaluation
    /\ evaluated' = [fn |-> "extractApiKey", args |-> <<apiKeyParam>>,
                     result |-> extractApiKey(apiKeyParam)]
    /\ UNCHANGED << serverVars, fileRun >>

EvalExtractCredentials(authHeader, apiKeyParam) ==
    /\ evaluated = NoEvaluation
    /\ evaluated' = [fn |-> "extractCredentials",
                     args |-> <<authHeader, apiKeyParam>>,
                     result |-> extractCredentials(authHeader, apiKeyParam)]
    /\ UNCHANGED << serverVars, fileRun >>

EvalExtractClusterId(vaultUrl) ==
    /\ evaluated = NoEvaluation
    /\ evaluated' = [fn |-> "extractClusterId", args |-> <<vaultUrl>>,
                     result |-> extractClusterId(vaultUrl)]
    /\ UNCHANGED << serverVars, fileRun >>

S_A1 == <<"a","1">>
S_W1 == <<"w","1">>

AccountIdInputs == {Undefined, S_A1}

WorkspaceIdInputs == {Undefined, S_W1}

EvalValidateVaultConfig(vaultId, vaultUrl, accountId, workspaceId) ==
    LET params == [vaultId |-> vaultId, vaultUrl |-> vaultUrl,
                   accountId |-> accountId, workspaceId |-> workspaceId]
    IN /\ evaluated = NoEvaluation
       /\ evaluated' = [fn |-> "validateVaultConfig", args |-> <<params>>,
                        result |-> validateVaultConfig(params)]
       /\ UNCHANGED << serverVars, fileRun >>

\* ------------------------------------------- the dehydrate_file handler

\* The keys of ENTITY_MAP, MASKING_METHOD_MAP and TRANSCRIPTION_MAP.
ENTITY_MAP ==
    {"age", "bank_account", "credit_card", "credit_card_expiration",
     "cvv", "date", "date_interval", "dob", "driver_license",
     "email_address", "healthcare_number", "ip_address", "location",
     "name", "numerical_pii", "phone_number", "ssn", "url",
     "vehicle_id", "medical_code", "name_family", "name_given",
     "account_number", "event", "filename", "gender", "language",
     "location_address", "location_city", "location_coordinate",
     "location_country", "location_state", "location_zip",
     "marital_status", "money", "name_medical_professional",
     "occupation", "organization", "organization_medical_facility",
     "origin", "passport_number", "password", "physical_attribute",
     "political_affiliation", "religion", "time", "username",
     "zodiac_sign", "blood_type", "condition", "dose", "drug",
     "injury", "medical_process", "statistics", "routing_number",
     "corporate_action", "financial_metric", "product", "trend",
     "duration", "location_address_street", "all", "sexuality",
     "effect", "project", "organization_id", "day", "month"}

MASKING_METHOD_MAP == {"BLACKBOX", "BLUR"}

TRANSCRIPTION_MAP == {"PLAINTEXT_TRANSCRIPTION", "DIARIZED_TRANSCRIPTION"}

\* The three tables are object literals, so their prototype is
\* Object.prototype: besides its own keys a table has the properties it
\* inherits, whose values are functions or objects.
ObjectPrototype ==
    {"constructor", "toString", "toLocaleString", "valueOf", "hasOwnProperty",
     "isPrototypeOf", "propertyIsEnumerable", "__proto__",
     "__defineGetter__", "__defineSetter__", "__lookupGetter__",
     "__lookupSetter__"}

\* name in table
HasProperty(table, name) == name \in table \cup ObjectPrototype

\* The value undefined, as a looked-up value.
NoValue == [kind |-> "undefined", of |-> "", member |-> ""]

\* An own key maps to the enum member declared for it; the member is
\* identified by the enum and the key (every member is a non-empty string).
EnumValue(enum, name) == [kind |-> "enum", of |-> enum, member |-> name]

\* table[name]: the own value, the inherited value, or undefined.
Get(enum, table, name) ==
    IF name \in table THEN EnumValue(enum, name)
    ELSE IF name \in ObjectPrototype
    THEN [kind |-> "inherited", of |-> "Object.prototype", member |-> name]
    ELSE NoValue

\* !value, for a looked-up value
Falsy(value) == value.kind = "undefined"

\* An optional scalar that is undefined.
Absent == "undefined"

\* Thrown values.  A message is a sequence of its literal and interpolated
\* parts.  `error` is the optional error property of a SkyflowError.
NoUpstreamError == [defined |-> FALSE, http_code |-> Absent, details |-> Absent]

NewError(message) ==
    [class |-> "Error", message |-> message, error |-> NoUpstreamError]

NoRaise == [class |-> "none", message |-> << >>, error |-> NoUpstreamError]

\* What the handler returns (returned) or rejects with (~returned).
NoResult ==
    [returned |-> FALSE, isError |-> FALSE,
     body |-> [error |-> FALSE, keys |-> {}, code |-> Absent,
               message |-> << >>, details |-> Absent]]

\* A handler whose catch block handles SkyflowError only and rethrows
\* everything else.
CatchSkyflowOnly(error) ==
    IF error.class = "SkyflowError"
    THEN [returned |-> TRUE, isError |-> TRUE,
          body |-> [error |-> TRUE,
                    keys |-> {"error", "code", "message", "details"},
                    code |-> error.error.http_code,
                    message |-> error.message,
                    details |-> error.error.details]]
    ELSE NoResult

\* catch (error) { ... } of the handler
Catch(error) ==
    IF error.class = "SkyflowError"
    THEN [returned |-> TRUE, isError |-> TRUE,
          body |-> [error |-> TRUE,
                    keys |-> {"error", "code", "message", "details"},
                    code |-> IF error.error.defined
                             THEN error.error.http_code ELSE Absent,
                    message |-> error.message,
                    details |-> IF error.error.defined
                                THEN error.error.details ELSE Absent]]
    ELSE [returned |-> TRUE, isError |-> TRUE,
          body |-> [error |-> TRUE, keys |-> {"error", "message"},
                    code |-> Absent,
                    message |-> IF error.class = "Error" THEN error.message
                                ELSE <<"Unknown error occurred">>,
                    details |-> Absent]]

\* return { content: [...JSON.stringify(output)], structuredContent: output }
Success ==
    [returned |-> TRUE, isError |-> FALSE,
     body |-> [error |-> FALSE, keys |-> {}, code |-> Absent,
               message |-> << >>, details |-> Absent]]

\* The first name of the entities array that ENTITY_MAP lacks (0: none).
FirstInvalidEntity(entities) ==
    LET B == {i \in 1..Len(entities) :
                 Falsy(Get("DetectEntities", ENTITY_MAP, entities[i]))}
    IN IF B = {} THEN 0 ELSE CHOOSE i \in B : \A j \in B : i <= j

\* What the part of the try block before the await throws for arguments
\* args in execution context c, in the order of its statements (NoRaise:
\* the detect call is reached).
RaisedBeforeAwait(args, c) ==
    IF FirstInvalidEntity(args.entities) # 0
    THEN NewError(<<"Invalid entity type: ",
                    args.entities[FirstInvalidEntity(args.entities)]>>)
    ELSE IF args.maskingMethod # Absent
            /\ Falsy(Get("MaskingMethod", MASKING_METHOD_MAP, args.maskingMethod))
    THEN NewError(<<"Invalid masking method: ", args.maskingMethod>>)
    ELSE IF args.outputTranscription # Absent
            /\ Falsy(Get("DetectOutputTranscription", TRANSCRIPTION_MAP,
                         args.outputTranscription))
    THEN NewError(<<"Invalid transcription type: ", args.outputTranscription>>)
    ELSE IF getCurrentSkyflow(c).threw
    THEN NewError(<<getCurrentSkyflow(c).error>>)
    ELSE IF getCurrentVaultId(c).threw
    THEN NewError(<<getCurrentVaultId(c).error>>)
    ELSE NoRaise

\* Longest entities array passed to the handler.
MaxEntities == 2

DEFAULT_MAX_WAIT_TIME_SECONDS == 64

\* The bounds of waitTime in the tool's inputSchema: .min(1), .max(64).
WaitTimeMin == 1
WaitTimeMax == 64

\* The optional argument waitTime: omitted, or a number.
NoWaitTime == [given |-> FALSE, value |-> 0]
WaitTime(n) == [given |-> TRUE, value |-> n]

\* z.number().min(1).max(64).optional(): the waitTime values with which the
\* handler is invoked.
inputSchemaWaitTime(waitTime) ==
    \/ ~waitTime.given
    \/ waitTime.value >= WaitTimeMin /\ waitTime.value <= WaitTimeMax

\* Wait times a caller may send: around both bounds of the schema, zero and
\* a negative one.
WaitTimeInputs ==
    {NoWaitTime} \cup
    {WaitTime(n) : n \in {-1, 0, WaitTimeMin, WaitTimeMin + 1,
                          WaitTimeMax - 1, WaitTimeMax, WaitTimeMax + 1}}

\* A variant that passes waitTime on as it came, without the default.
WaitTimePassedNoDefault(waitTime) == waitTime.value

\* waitTime || DEFAULT_MAX_WAIT_TIME_SECONDS, the argument of setWaitTime:
\* undefined and 0 are falsy.
WaitTimePassed(waitTime) ==
    IF waitTime.given /\ waitTime.value # 0
    THEN waitTime.value
    ELSE DEFAULT_MAX_WAIT_TIME_SECONDS

\* Tool arguments: names the maps have and names they lack ("year" is the
\* entity the source notes as unavailable), and the wait times the
\* inputSchema lets through.
FileArgs ==
    [entities : Strs({"age", "ssn", "year"}, MaxEntities),
     maskingMethod : {Absent, "BLUR", "PIXELATE"},
     outputTranscription : {Absent, "PLAINTEXT_TRANSCRIPTION", "SRT"},
     waitTime : {w \in WaitTimeInputs : inputSchemaWaitTime(w)}]

\* How the awaited detect(vaultId).deidentifyFile(...) ends: it resolves
\* (NoRaise), rejects with a SkyflowError with or without its error
\* property, with another Error, or with a value that is no Error.
UpstreamOutcomes ==
    {NoRaise, NewError(<<"fetch failed">>),
     [class |-> "other", message |-> << >>, error |-> NoUpstreamError],
     [class |-> "SkyflowError", message |-> <<"upstream">>,
      error |-> NoUpstreamError]}
    \cup
    {[class |-> "SkyflowError", message |-> <<"upstream">>,
      error |-> [defined |-> TRUE, http_code |-> code, details |-> details]] :
        code \in {"400", "500"}, details \in {Absent, "d1", "d2"}}

Contexts == {TopLevel} \cup Reqs

\* skyflow.detect(vaultId).deidentifyFile(...) has not been called.
NoCall == [issued |-> FALSE, skyflow |-> NoClient, vaultId |-> Undefined,
           waitTime |-> 0]

\* The request the handler is run for in this specification.
FileRequest == CHOOSE r \in Reqs : \A q \in Reqs : r <= q

\* The server after one admitted request has entered its run scope: the
\* state Listen and then Arrive(FileRequest, ...) lead to.
HandlerInit ==
    LET inp == [auth |-> S_BearerA, vaultId |-> S_V1, vaultUrl |-> S_UrlC1]
        mw == authenticateBearer(inp.auth)
        rt == RouteResolve(inp, env, mw.bearerToken)
        skyflowInstance ==
            NewSkyflow(FileRequest, rt.vaultId, rt.clusterId, mw.bearerToken)
        only(x, none) == [r \in Reqs |-> IF r = FileRequest THEN x ELSE none]
    IN /\ proc = "up"
       /\ env \in EnvChoices
       /\ pc = only("connecting", "idle")
       /\ input = only(inp, NoInput)
       /\ status = [r \in Reqs |-> 0]
       /\ errorMsg = [r \in Reqs |-> ""]
       /\ bearerToken = only(mw.bearerToken, Undefined)
       /\ entered = only(TRUE, FALSE)
       /\ client = only(skyflowInstance, NoClient)
       /\ transportOf = only(NewTransport(FileRequest), 0)
       /\ tlog = [t \in Reqs |-> IF t = NewTransport(FileRequest)
                                 THEN <<"new", "connect">> ELSE << >>]
       /\ serverTransport = 0
       /\ store = only(RequestContext(skyflowInstance, rt.vaultId), NoStore)
       /\ resOpen = [r \in Reqs |-> TRUE]
       /\ closeListener = only(TRUE, FALSE)
       /\ tool = [r \in Reqs |-> "none"]
       /\ observed = [r \in Reqs |-> NoObs]
       /\ calls = {}
       /\ handlerResult = [r \in Reqs |-> "none"]
       /\ delivered = [r \in Reqs |-> "none"]
       /\ outside = NoOutside
       /\ evaluated = NoEvaluation
       /\ fileRun = NoFileRun

\* The handler is invoked with args in execution context c and runs to its
\* first await, or to its return when something throws before.
FileStart(c, args) ==
    LET raised == RaisedBeforeAwait(args, c)
    IN /\ fileRun.pc = "idle"
       /\ fileRun' =
            IF raised # NoRaise
            THEN [pc |-> "settled", context |-> c, args |-> args,
                  raised |-> raised, call |-> NoCall, result |-> Catch(raised)]
            ELSE [pc |-> "awaiting", context |-> c, args |-> args,
                  raised |-> NoRaise,
                  call |-> [issued |-> TRUE,
                            skyflow |-> getCurrentSkyflow(c).value,
                            vaultId |-> getCurrentVaultId(c).value,
                            waitTime |-> WaitTimePassed(args.waitTime)],
                  result |-> NoResult]
       /\ UNCHANGED << serverVars, evaluated >>

\* The awaited call ends with outcome up and the handler runs to its end.
FileResume(up) ==
    /\ fileRun.pc = "awaiting"
    /\ fileRun' = [fileRun EXCEPT
                     !.pc = "settled",
                     !.raised = up,
                     !.result = IF up = NoRaise THEN Success ELSE Catch(up)]
    /\ UNCHANGED << serverVars, evaluated >>

HandlerNext ==
    \/ \E c \in Contexts : \E args \in FileArgs : FileStart(c, args)
    \/ \E up \in UpstreamOutcomes : FileResume(up)

HandlerSpec == HandlerInit /\ [][HandlerNext]_vars

\* ------------------------------------------------- lib/mappings: lookups

getEntityEnum(entity) ==
    LET entityEnum == Get("DetectEntities", ENTITY_MAP, entity)
    IN IF Falsy(entityEnum)
       THEN [threw |-> TRUE, error |-> <<"Invalid entity type: ", entity>>,
             value |-> NoValue]
       ELSE [threw |-> FALSE, error |-> << >>, value |-> entityEnum]

getMaskingMethodEnum(method) ==
    LET maskingEnum == Get("MaskingMethod", MASKING_METHOD_MAP, method)
    IN IF Falsy(maskingEnum)
       THEN [threw |-> TRUE, error |-> <<"Invalid masking method: ", method>>,
             value |-> NoValue]
       ELSE [threw |-> FALSE, error |-> << >>, value |-> maskingEnum]

getTranscriptionEnum(transcription) ==
    LET transcriptionEnum ==
            Get("DetectOutputTranscription", TRANSCRIPTION_MAP, transcription)
    IN IF Falsy(transcriptionEnum)
       THEN [threw |-> TRUE,
             error |-> <<"Invalid transcription type: ", transcription>>,
             value |-> NoValue]
       ELSE [threw |-> FALSE, error |-> << >>, value |-> transcriptionEnum]

isValidEntity(entity) == HasProperty(ENTITY_MAP, entity)

\* Names passed to the lookups: every declared key, the same names in
\* another case, the empty string, undeclared names, and names every
\* object has.
NameInputs ==
    ENTITY_MAP \cup MASKING_METHOD_MAP \cup TRANSCRIPTION_MAP \cup
    {"", "AGE", "Ssn", "EMAIL_ADDRESS", "invalid_entity", "year", "blackbox",
     "Blur", "INVALID", "PIXELATE", "plaintext_transcription", "SRT",
     "toString", "constructor", "hasOwnProperty", "__proto__"}

EvalIsValidEntity(entity) ==
    /\ evaluated = NoEvaluation
    /\ evaluated' = [fn |-> "isValidEntity", args |-> <<entity>>,
                     result |-> [valid |-> isValidEntity(entity),
                                 getEntityEnum |-> getEntityEnum(entity)]]
    /\ UNCHANGED << serverVars, fileRun >>

EvalGetEntityEnum(entity) ==
    /\ evaluated = NoEvaluation
    /\ evaluated' = [fn |-> "getEntityEnum", args |-> <<entity>>,
                     result |-> getEntityEnum(entity)]
    /\ UNCHANGED << serverVars, fileRun >>

EvalGetMaskingMethodEnum(method) ==
    /\ evaluated = NoEvaluation
    /\ evaluated' = [fn |-> "getMaskingMethodEnum", args |-> <<method>>,
                     result |-> getMaskingMethodEnum(method)]
    /\ UNCHANGED << serverVars, fileRun >>

EvalGetTranscriptionEnum(transcription) ==
    /\ evaluated = NoEvaluation
    /\ evaluated' = [fn |-> "getTranscriptionEnum", args |-> <<transcription>>,
                     result |-> getTranscriptionEnum(transcription)]
    /\ UNCHANGED << serverVars, fileRun >>

\* ------------------------------------------ the /mcp route: parameters

\* A variant in which the process environment wins over the query.
ResolveParamsEnvFirst(query, e) ==
    [accountId   |-> OrElse(e.ACCOUNT_ID, query.accountId),
     vaultId     |-> OrElse(e.VAULT_ID, query.vaultId),
     vaultUrl    |-> OrElse(e.VAULT_URL, query.vaultUrl),
     workspaceId |-> OrElse(e.WORKSPACE_ID, query.workspaceId)]

\* (req.query.X as string) || process.env.X, for the four tenant parameters.
ResolveParams(query, e) ==
    [accountId   |-> OrElse(query.accountId, e.ACCOUNT_ID),
     vaultId     |-> OrElse(query.vaultId, e.VAULT_ID),
     vaultUrl    |-> OrElse(query.vaultUrl, e.VAULT_URL),
     workspaceId |-> OrElse(query.workspaceId, e.WORKSPACE_ID)]

S_A0 == <<"a","0">>
S_W0 == <<"w","0">>

\* req.query of a request to /mcp: each parameter missing, empty or set.
QueryInputs ==
    [accountId   : {Undefined, S_Empty, S_A1},
     vaultId     : {Undefined, S_Empty, S_V1},
     vaultUrl    : {Undefined, S_Empty, S_UrlC1, S_UrlHttp},
     workspaceId : {Undefined, S_W1}]

\* process.env: each of the four variables unset, empty or set.
EnvInputs ==
    [ACCOUNT_ID   : {Undefined, S_A0},
     VAULT_ID     : {Undefined, S_Empty, S_V0},
     VAULT_URL    : {Undefined, S_UrlC0},
     WORKSPACE_ID : {Undefined, S_W0}]

\* The route handler behind the middleware: req.bearerToken is the token
\* the middleware extracted.
EvalMcpRoute(query, e, token) ==
    /\ evaluated = NoEvaluation
    /\ evaluated' = [fn |-> "mcpRoute", args |-> <<query, e, token>>,
                     result |-> [resolved |-> ResolveParams(query, e),
                                 route |-> RouteResolve(query, e, token)]]
    /\ UNCHANGED << serverVars, fileRun >>

\* ------------------------------------- lib/middleware: the middlewares

\* One line written by console.log: its label and what follows it.
LogLine(label, data) == [label |-> label, data |-> data]

\* The first line the middleware logs for a request.
AuthDebug(req) ==
    LogLine("Auth Debug:",
            [authHeader  |-> IF Truthy(req.authorization) THEN "present" ELSE "missing",
             apiKeyQuery |-> IF Truthy(req.apiKey) THEN "present" ELSE "missing",
             vaultId     |-> req.vaultId,
             vaultUrl    |-> req.vaultUrl,
             path        |-> req.path])

\* "token" in result.credentials
HasTokenProperty(credentials) == credentials.token # Undefined

CredentialsKind(result) ==
    IF result.credentials.defined /\ HasTokenProperty(result.credentials)
    THEN "bearer token" ELSE "API key"

\* A variant without the `return` in front of the 401 response: after
\* answering, the middleware goes on as if credentials had been found.
authenticateBearerCredentialsFallThrough(req) ==
    LET result == extractCredentials(req.authorization, req.apiKey)
        found == LogLine("Credentials found, type:", CredentialsKind(result))
    IN IF ~result.isPresent
       THEN [log |-> << AuthDebug(req),
                        LogLine("Credentials not found:", result.error), found >>,
             responses |-> << [status |-> 401, error |-> result.error] >>,
             attached |-> TRUE, skyflowCredentials |-> result.credentials,
             nextCalls |-> 1]
       ELSE [log |-> << AuthDebug(req), found >>,
             responses |-> << >>,
             attached |-> TRUE, skyflowCredentials |-> result.credentials,
             nextCalls |-> 1]

\* A variant that also logs the credentials it found.
authenticateBearerCredentialsLogsValues(req) ==
    LET result == extractCredentials(req.authorization, req.apiKey)
    IN IF ~result.isPresent
       THEN [log |-> << AuthDebug(req),
                        LogLine("Credentials not found:", result.error) >>,
             responses |-> << [status |-> 401, error |-> result.error] >>,
             attached |-> FALSE, skyflowCredentials |-> NoCredentials,
             nextCalls |-> 0]
       ELSE [log |-> << AuthDebug(req),
                        LogLine("Credentials found, type:", CredentialsKind(result)),
                        LogLine("Credentials:", result.credentials) >>,
             responses |-> << >>,
             attached |-> TRUE, skyflowCredentials |-> result.credentials,
             nextCalls |-> 1]

\* The middleware of lib/middleware that accepts a bearer token or an API
\* key: what it logs, the responses it sends, whether and what it assigns to
\* req.skyflowCredentials, and how many times it calls next.
authenticateBearerCredentials(req) ==
    LET result == extractCredentials(req.authorization, req.apiKey)
    IN IF ~result.isPresent
       THEN [log |-> << AuthDebug(req),
                        LogLine("Credentials not found:", result.error) >>,
             responses |-> << [status |-> 401, error |-> result.error] >>,
             attached |-> FALSE, skyflowCredentials |-> NoCredentials,
             nextCalls |-> 0]
       ELSE [log |-> << AuthDebug(req),
                        LogLine("Credentials found, type:", CredentialsKind(result)) >>,
             responses |-> << >>,
             attached |-> TRUE, skyflowCredentials |-> result.credentials,
             nextCalls |-> 1]

\* The second extractBearerToken of the file, whose result has isValid
\* where the first has isPresent.
extractBearerTokenIsValid(authHeader) ==
    IF ~Truthy(authHeader) \/ ~startsWith(authHeader, S_BearerPrefix)
    THEN [isValid |-> FALSE, token |-> Undefined, error |-> MsgMissingAuth]
    ELSE LET token == substring(authHeader, 7)
         IN IF ~Truthy(token) \/ Len(trim(token)) = 0
            THEN [isValid |-> FALSE, token |-> Undefined, error |-> MsgEmptyBearer]
            ELSE [isValid |-> TRUE, token |-> token, error |-> NoError]

S_KeyK == <<"k">>

\* Requests as the middleware reads them.
MiddlewareRequests ==
    [authorization : HeaderInputs, apiKey : ApiKeyInputs,
     vaultId : {Undefined, S_V1}, vaultUrl : {S_UrlC1}, path : {"/mcp"}]

\* The first request of a pair, and the second: the first with another
\* Authorization header or another apiKey.
PairedRequests ==
    [authorization : HeaderInputs, apiKey : {Undefined, S_KeyK},
     vaultId : {S_V1}, vaultUrl : {S_UrlC1}, path : {"/mcp"}]

WithAuthorization(req, authHeader) == [req EXCEPT !.authorization = authHeader]

WithApiKey(req, apiKeyParam) == [req EXCEPT !.apiKey = apiKeyParam]

\* One request through each of the two middlewares.
EvalAuthenticateBearer(req) ==
    /\ evaluated = NoEvaluation
    /\ evaluated' = [fn |-> "authenticateBearer", args |-> <<req>>,
                     result |-> [lib |-> authenticateBearerCredentials(req),
                                 inline |-> authenticateBearer(req.authorization)]]
    /\ UNCHANGED << serverVars, fileRun >>

\* Two requests through the middleware of lib/middleware.
EvalAuthenticateBearerTwice(req1, req2) ==
    /\ evaluated = NoEvaluation
    /\ evaluated' = [fn |-> "authenticateBearerTwice", args |-> <<req1, req2>>,
                     result |-> << authenticateBearerCredentials(req1),
                                   authenticateBearerCredentials(req2) >>]
    /\ UNCHANGED << serverVars, fileRun >>

\* One Authorization header through the three extractions.
EvalBearerExtractions(authHeader) ==
    /\ evaluated = NoEvaluation
    /\ evaluated' = [fn |-> "bearerExtractions", args |-> <<authHeader>>,
                     result |-> [isPresent |-> extractBearerToken(authHeader),
                                 isValid |-> extractBearerTokenIsValid(authHeader),
                                 inline |-> authenticateBearer(authHeader)]]
    /\ UNCHANGED << serverVars, fileRun >>

\* process.env with none of the route's variables set.
EmptyEnv == [VAULT_ID |-> Undefined, VAULT_URL |-> Undefined]

\* One pair of resolved routing parameters through the validation inlined
\* in the route handler, behind a middleware that extracted a token, and
\* through validateVaultConfig.
EvalRouteValidations(vaultId, vaultUrl) ==
    LET params == [vaultId |-> vaultId, vaultUrl |-> vaultUrl,
                   accountId |-> Undefined, workspaceId |-> Undefined]
    IN /\ evaluated = NoEvaluation
       /\ evaluated' = [fn |-> "routeValidations", args |-> <<vaultId, vaultUrl>>,
                        result |-> [inline |-> RouteResolve(params, EmptyEnv, <<"a">>),
                                    lib |-> validateVaultConfig(params)]]
       /\ UNCHANGED << serverVars, fileRun >>

\* ------------------------------------------ the evaluations of LibSpec

\* The inputs still to be drawn: all of S before the one evaluation of a
\* behaviour, none after it.
Pending(S) == IF evaluated = NoEvaluation THEN S ELSE {}

LibNext ==
    \/ \E h \in Pending(HeaderInputs) : EvalExtractBearerToken(h)
    \/ \E k \in Pending(ApiKeyInputs) : EvalExtractApiKey(k)
    \/ \E h \in Pending(HeaderInputs) : \E k \in ApiKeyInputs : EvalExtractCredentials(h, k)
    \/ \E u \in Pending(UrlInputs) : EvalExtractClusterId(u)
    \/ \E id \in Pending(VaultIdInputs) : \E u \in {Undefined} \cup UrlInputs :
          \E a \in AccountIdInputs : \E w \in WorkspaceIdInputs :
             EvalValidateVaultConfig(id, u, a, w)
    \/ \E n \in Pending(NameInputs) : EvalIsValidEntity(n)
    \/ \E n \in Pending(NameInputs) : EvalGetEntityEnum(n)
    \/ \E n \in Pending(NameInputs) : EvalGetMaskingMethodEnum(n)
    \/ \E n \in Pending(NameInputs) : EvalGetTranscriptionEnum(n)
    \/ \E q \in Pending(QueryInputs) : \E e \in EnvInputs : EvalMcpRoute(q, e, <<"a">>)
    \/ \E req \in Pending(MiddlewareRequests) : EvalAuthenticateBearer(req)
    \/ \E req \in Pending(PairedRequests) : \E h \in HeaderInputs :
          EvalAuthenticateBearerTwice(req, WithAuthorization(req, h))
    \/ \E req \in Pending(PairedRequests) : \E k \in ApiKeyInputs :
          EvalAuthenticateBearerTwice(req, WithApiKey(req, k))
    \/ \E h \in Pending(HeaderInputs) : EvalBearerExtractions(h)
    \/ \E id \in Pending(VaultIdInputs) : \E u \in {Undefined} \cup UrlInputs :
          EvalRouteValidations(id, u)

LibSpec == Init /\ [][LibNext]_vars

\* ---------------------------------------------------------------- claims

\* What a request's own inputs determine, computed from the inputs alone.
OwnToken(r) == substring(input[r].auth, 7)
OwnVaultId(r) == OrElse(input[r].vaultId, env.VAULT_ID)
OwnVaultUrl(r) == OrElse(input[r].vaultUrl, env.VAULT_URL)
OwnClusterId(r) == extractClusterId(OwnVaultUrl(r))

InFlight(r) == pc[r] \in {"connecting", "awaiting"}

Count(log, ev) == Cardinality({i \in 1..Len(log) : log[i] = ev})

\* A header that carries a bearer credential: the exact prefix "Bearer "
\* followed by a token with at least one non-whitespace character.
CarriesBearer(h) ==
    /\ h # Undefined
    /\ Len(h) > 7
    /\ \A i \in 1..7 : h[i] = S_BearerPrefix[i]
    /\ \E i \in 8..Len(h) : ~IsSpace(h[i])

\* C1: every context lookup made inside a request's handler call graph
\* returns the context bound for that request (its own Skyflow instance and
\* its own vaultId) and never another request's, whatever other requests ran
\* while it was suspended.
C1_LookupsSeeOwnContext ==
    \A r \in Reqs :
        observed[r].looked =>
            /\ ~observed[r].threw
            /\ observed[r].skyflow = client[r]
            /\ observed[r].skyflow.id = r
            /\ observed[r].vaultId \in {Undefined, OwnVaultId(r)}
            /\ \A q \in Reqs \ {r} :
                  client[q] # NoClient => observed[r].skyflow # client[q]

\* Two requests of different tenants are suspended on their upstream calls
\* at the same time, each having looked its context up after the other was
\* bound.
C1_Witness ==
    \E r, q \in Reqs :
        /\ r # q
        /\ pc[r] = "awaiting" /\ pc[q] = "awaiting"
        /\ observed[r].looked /\ observed[q].looked
        /\ observed[r].vaultId # Undefined
        /\ observed[r].vaultId # OwnVaultId(q)
        /\ client[r].token # client[q].token

C3_ServerReadOnly == [][serverTransport' = serverTransport]_vars

C5_LookupOutsideThrows ==
    outside.looked =>
        /\ outside.skyflow.threw
        /\ outside.skyflow.error = MsgNoSkyflow
        /\ outside.skyflow.value = NoClient
        /\ outside.vaultId.threw
        /\ outside.vaultId.error = MsgNoVaultId
        /\ outside.vaultId.value = Undefined

\* A lookup was made outside while one request's context is bound and
\* another request's scope is already over.
C5_Witness ==
    /\ outside.looked
    /\ \E r, q \in Reqs : store[r].bound /\ pc[r] = "awaiting" /\ pc[q] = "done"

\* C6: run binds the context and starts the body in the same step; the
\* binding lasts while the call graph is unsettled and is gone once it has
\* settled, so neither code outside nor another request ever observes it.
C6_BoundExactlyForTheRun ==
    /\ \A r \in Reqs :
          /\ InFlight(r) =>
                /\ store[r] = RequestContext(client[r], OwnVaultId(r))
                /\ Count(tlog[transportOf[r]], "connect") = 1
          /\ ~InFlight(r) => store[r] = NoStore
          /\ \A q \in Reqs \ {r} :
                (observed[q].looked /\ client[r] # NoClient) =>
                    observed[q].skyflow # client[r]
    /\ outside.looked => outside.skyflow.value = NoClient

\* A request's call graph has settled after a lookup inside it, another
\* request looked its context up, and code outside looked up as well.
C6_Witness ==
    \E r, q \in Reqs :
        /\ r # q
        /\ pc[r] = "done" /\ observed[r].looked /\ ~observed[r].threw
        /\ observed[q].looked
        /\ outside.looked

\* C7: every upstream call was issued with the client built from the
\* calling request's own bearer token, vaultId and derived clusterId, and
\* with that request's own vaultId where one is passed.
C7_CallsUseOwnTenant ==
    \A c \in calls :
        /\ c.client.id = c.by
        /\ c.client.token = OwnToken(c.by)
        /\ c.client.vaultId = OwnVaultId(c.by)
        /\ c.client.clusterId = OwnClusterId(c.by)
        /\ c.vaultId \in {Undefined, OwnVaultId(c.by)}

\* Calls of two concurrent requests that differ in token, vaultId and
\* clusterId, one of them passing its vaultId, issued while both waited.
C7_Witness ==
    \E c, d \in calls :
        /\ c.by # d.by
        /\ c.client.token # d.client.token
        /\ c.client.vaultId # d.client.vaultId
        /\ c.client.clusterId # d.client.clusterId
        /\ c.vaultId = OwnVaultId(c.by)
        /\ pc[c.by] = "awaiting" /\ pc[d.by] = "awaiting"

C9_LifecycleOrder ==
    \A t \in Reqs :
        tlog[t] \in { << >>,
                      <<"new", "connect">>,
                      <<"new", "connect", "handle">>,
                      <<"new", "connect", "close">>,
                      <<"new", "connect", "handle", "close">> }

\* A transport went through the whole lifecycle, and another was closed
\* after connect threw.
C9_Witness ==
    \E t, u \in Reqs :
        /\ tlog[t] = <<"new", "connect", "handle", "close">>
        /\ tlog[u] = <<"new", "connect", "close">>

\* C10: a request without a well-formed bearer credential is answered 401;
\* the route handler is not entered and no Skyflow client, request context
\* or transport exists for it, and no upstream call is made for it.
C10_NoCredentialNoResources ==
    \A r \in Reqs :
        (pc[r] # "idle" /\ ~CarriesBearer(input[r].auth)) =>
            /\ pc[r] = "rejected"
            /\ status[r] = 401
            /\ errorMsg[r] \in {MsgMissingAuth, MsgEmptyBearer}
            /\ ~entered[r]
            /\ bearerToken[r] = Undefined
            /\ client[r] = NoClient
            /\ store[r] = NoStore
            /\ transportOf[r] = 0
            /\ ~closeListener[r]
            /\ \A c \in calls : c.by # r

\* One request came without a header, one with a header of another scheme.
C10_Witness ==
    \E r, q \in Reqs :
        /\ input[r].auth = Undefined /\ pc[r] = "rejected"
        /\ input[q].auth = S_BasicA /\ pc[q] = "rejected"

\* The vault URL format: the scheme https, then a non-empty cluster label
\* without a dot, then ".vault" and whatever follows.
VaultLabelEnd(u) ==
    {k \in 10..Len(u) : /\ k + 5 <= Len(u)
                        /\ \A i \in 9..(k - 1) : u[i] # "."
                        /\ \A j \in 0..5 : u[k + j] = S_DotVault[j + 1]}

HasVaultForm(u) ==
    /\ u # Undefined
    /\ Len(u) >= 8
    /\ \A i \in 1..8 : u[i] = S_HttpsScheme[i]
    /\ VaultLabelEnd(u) # {}

VaultLabel(u) == [i \in 1..((CHOOSE k \in VaultLabelEnd(u) : TRUE) - 9) |-> u[i + 8]]

\* The routing parameters of request r resolve: a vaultId, and a vaultUrl
\* of the vault URL format.
RouteOk(r) ==
    /\ Truthy(OwnVaultId(r))
    /\ Truthy(OwnVaultUrl(r))
    /\ HasVaultForm(OwnVaultUrl(r))

\* C11: a request with a credential whose routing parameters are missing
\* or malformed is answered 400 and has no Skyflow client, request context,
\* transport or upstream call; a context is bound only for a request whose
\* credential and route both resolved.
C11_BadRouteNoResources ==
    \A r \in Reqs :
        /\ (pc[r] # "idle" /\ CarriesBearer(input[r].auth) /\ ~RouteOk(r)) =>
              /\ pc[r] = "rejected"
              /\ status[r] = 400
              /\ client[r] = NoClient
              /\ store[r] = NoStore
              /\ transportOf[r] = 0
              /\ ~closeListener[r]
              /\ \A c \in calls : c.by # r
        /\ store[r].bound => (CarriesBearer(input[r].auth) /\ RouteOk(r))

\* C12: every admitted request has a Skyflow client of its own, built from
\* its own token, vaultId and derived clusterId; no two requests hold the
\* same client object, whether or not their parameters are equal.
C12_FreshClientPerRequest ==
    \A r \in Reqs :
        client[r] # NoClient =>
            /\ client[r] = [id |-> r, vaultId |-> OwnVaultId(r),
                            clusterId |-> OwnClusterId(r), token |-> OwnToken(r)]
            /\ \A q \in Reqs \ {r} :
                  client[q] # NoClient => client[q].id # client[r].id
            /\ store[r].bound => store[r].skyflow.id = r

\* A request was admitted after another request with the same credential,
\* vaultId and vaultUrl had been answered, and has its own client.
C12_Witness ==
    \E r, q \in Reqs :
        /\ r # q
        /\ input[r] = input[q]
        /\ pc[q] = "done" /\ delivered[q] = "result"
        /\ pc[r] = "awaiting"
        /\ client[r].id = r /\ client[q].id = q
        /\ client[r].token = client[q].token

\* What follows the 7-character prefix of header h, character by character.
Remainder(h) == [i \in 1..(Len(h) - 7) |-> h[i + 7]]

\* The header starts with the exact prefix "Bearer ".
HasBearerPrefix(h) ==
    /\ h # Undefined
    /\ Len(h) >= 7
    /\ \A i \in 1..7 : h[i] = S_BearerPrefix[i]

NonSpaceAt(x) == {i \in 1..Len(x) : ~IsSpace(x[i])}

HasNonSpace(x) == x # Undefined /\ NonSpaceAt(x) # {}

\* x without its leading and trailing whitespace: from its first to its
\* last non-whitespace character.
Stripped(x) ==
    LET first == CHOOSE i \in NonSpaceAt(x) : \A j \in NonSpaceAt(x) : i <= j
        last == CHOOSE i \in NonSpaceAt(x) : \A j \in NonSpaceAt(x) : j <= i
    IN [i \in 1..(last - first + 1) |-> x[first + i - 1]]

\* C14: for a header with the exact prefix "Bearer " and a remainder that
\* has a non-whitespace character, extractBearerToken reports the token
\* present and returns the remainder verbatim, whitespace included, with no
\* error.
C14_TokenVerbatim ==
    evaluated.fn = "extractBearerToken" =>
        LET h == evaluated.args[1]
        IN CarriesBearer(h) =>
              /\ evaluated.result.isPresent
              /\ evaluated.result.token = Remainder(h)
              /\ evaluated.result.error = NoError

\* A token with whitespace on both sides came back as it was.
C14_Witness ==
    /\ evaluated.fn = "extractBearerToken"
    /\ evaluated.args[1] = S_BearerPrefix \o <<" ", "a">>
    /\ evaluated.result.isPresent
    /\ evaluated.result.token = <<" ", "a">>

\* C15: extractBearerToken returns absent, without token, with "Missing or
\* invalid Authorization header" for a header that is undefined, empty or
\* lacks the exact prefix, and with "Bearer token is empty" for a header with
\* the prefix and an empty or all-whitespace remainder; no other failure
\* message exists.
C15_TwoFailureMessages ==
    evaluated.fn = "extractBearerToken" =>
        LET h == evaluated.args[1]
            res == evaluated.result
        IN /\ ~HasBearerPrefix(h) =>
                 (~res.isPresent /\ res.token = Undefined
                    /\ res.error = MsgMissingAuth)
           /\ (HasBearerPrefix(h) /\ ~HasNonSpace(Remainder(h))) =>
                 (~res.isPresent /\ res.token = Undefined
                    /\ res.error = MsgEmptyBearer)
           /\ ~res.isPresent => res.error \in {MsgMissingAuth, MsgEmptyBearer}
           /\ res.isPresent => res.error = NoError

\* A header with the prefix and a remainder of a blank and a tab.
C15_Witness ==
    /\ evaluated.fn = "extractBearerToken"
    /\ evaluated.args[1] = S_BearerPrefix \o <<" ", "\t">>
    /\ ~evaluated.result.isPresent
    /\ evaluated.result.error = MsgEmptyBearer

\* C16: extractApiKey returns the value without its surrounding whitespace
\* when that is non-empty; absent with "Missing or invalid apiKey query
\* parameter" for undefined and for the empty string; absent with "API key
\* is empty" for a non-empty all-whitespace string.
C16_ApiKeyTrimmed ==
    evaluated.fn = "extractApiKey" =>
        LET k == evaluated.args[1]
            res == evaluated.result
        IN /\ HasNonSpace(k) =>
                 (res.isPresent /\ res.token = Stripped(k)
                    /\ res.error = NoError)
           /\ k \in {Undefined, S_Empty} =>
                 (~res.isPresent /\ res.token = Undefined
                    /\ res.error = MsgMissingApiKey)
           /\ (k \notin {Undefined, S_Empty} /\ ~HasNonSpace(k)) =>
                 (~res.isPresent /\ res.token = Undefined
                    /\ res.error = MsgEmptyApiKey)

\* A key with whitespace around it came back without it.
C16_Witness ==
    /\ evaluated.fn = "extractApiKey"
    /\ evaluated.args[1] \in {<<" ", "k">>, <<"k", "\n">>}
    /\ evaluated.result.token = <<"k">>

\* C17: extractCredentials returns {token} whenever the header yields a
\* token, whatever the apiKey; otherwise {apiKey: trimmed value} when the
\* apiKey is valid; otherwise absent with the combined message and neither
\* extractor's own message.
C17_BearerFirst ==
    evaluated.fn = "extractCredentials" =>
        LET h == evaluated.args[1]
            k == evaluated.args[2]
            res == evaluated.result
        IN /\ CarriesBearer(h) =>
                 (res.isPresent /\ res.credentials = TokenCredentials(Remainder(h)))
           /\ (~CarriesBearer(h) /\ HasNonSpace(k)) =>
                 (res.isPresent /\ res.credentials = ApiKeyCredentials(Stripped(k)))
           /\ (~CarriesBearer(h) /\ ~HasNonSpace(k)) =>
                 /\ ~res.isPresent
                 /\ res.credentials = NoCredentials
                 /\ res.error = MsgMissingCredentials
                 /\ res.error \notin {MsgMissingAuth, MsgEmptyBearer,
                                      MsgMissingApiKey, MsgEmptyApiKey}

\* A valid header and a valid apiKey were both given, and the token won.
C17_Witness ==
    /\ evaluated.fn = "extractCredentials"
    /\ CarriesBearer(evaluated.args[1])
    /\ HasNonSpace(evaluated.args[2])
    /\ evaluated.result.credentials.token = Remainder(evaluated.args[1])
    /\ evaluated.result.credentials.apiKey = Undefined

\* C18: every extractCredentials result is well formed: isPresent exactly
\* when credentials is defined and error is not, and a defined credentials
\* has exactly one of token and apiKey.
C18_ResultWellFormed ==
    evaluated.fn = "extractCredentials" =>
        LET res == evaluated.result
            cr == evaluated.result.credentials
        IN /\ res.isPresent <=> (cr.defined /\ res.error = NoError)
           /\ cr.defined => ((cr.token # Undefined) # (cr.apiKey # Undefined))

\* A header of another scheme with a valid apiKey gave an apiKey credential.
C18_Witness ==
    /\ evaluated.fn = "extractCredentials"
    /\ evaluated.args[1] = S_Basic \o <<"a">>
    /\ evaluated.result.isPresent
    /\ evaluated.result.credentials.defined
    /\ evaluated.result.credentials.apiKey = <<"k">>
    /\ evaluated.result.credentials.token = Undefined

\* C19: extractClusterId returns the label between "https://" and ".vault"
\* for every URL of the vault URL format, whatever path follows, and null
\* for every other input: a URL of another scheme, a string that is no URL.
C19_ClusterIdOnlyForVaultUrls ==
    evaluated.fn = "extractClusterId" =>
        LET u == evaluated.args[1]
        IN IF HasVaultForm(u)
           THEN evaluated.result = VaultLabel(u)
           ELSE evaluated.result = Undefined

\* C20: validateVaultConfig returns the message of the first failing check
\* in the order vaultId missing, vaultUrl missing, vaultUrl malformed: a
\* missing or empty vaultId gives the vaultId message whatever the vaultUrl,
\* and a present vaultUrl that is not of the vault URL format gives the
\* invalid-format message and never the vaultUrl-required one.
C20_FirstFailingCheck ==
    evaluated.fn = "validateVaultConfig" =>
        LET params == evaluated.args[1]
            res == evaluated.result
            noVaultId == params.vaultId \in {Undefined, S_Empty}
            noVaultUrl == params.vaultUrl \in {Undefined, S_Empty}
        IN /\ noVaultId => (~res.isValid /\ res.error = MsgVaultIdRequired)
           /\ (~noVaultId /\ noVaultUrl) =>
                 (~res.isValid /\ res.error = MsgVaultUrlRequired)
           /\ (~noVaultId /\ ~noVaultUrl /\ ~HasVaultForm(params.vaultUrl)) =>
                 (~res.isValid /\ res.error = MsgInvalidVaultUrl)
           /\ ~noVaultUrl => res.error # MsgVaultUrlRequired

\* C13: the dehydrate_file handler never rejects; whenever something was
\* raised while it ran, it returned a result with isError true and a body
\* with error true and a message, and for a SkyflowError the body carries
\* the upstream http code, message and details as they came.
C13_FileErrorsReturned ==
    fileRun.pc = "settled" =>
        /\ fileRun.result.returned
        /\ fileRun.raised # NoRaise =>
              /\ fileRun.result.isError
              /\ fileRun.result.body.error
              /\ "message" \in fileRun.result.body.keys
              /\ fileRun.raised.class = "Error" =>
                    fileRun.result.body.message = fileRun.raised.message
              /\ fileRun.raised.class = "SkyflowError" =>
                    /\ fileRun.result.body.message = fileRun.raised.message
                    /\ fileRun.result.body.code = fileRun.raised.error.http_code
                    /\ fileRun.result.body.details = fileRun.raised.error.details
        /\ fileRun.raised = NoRaise => ~fileRun.result.isError

\* The upstream call of a handler that found its context failed with a
\* plain Error, which came back as a tool error.
C13_Witness ==
    /\ fileRun.pc = "settled"
    /\ fileRun.context = FileRequest
    /\ fileRun.call.issued
    /\ fileRun.call.skyflow = client[FileRequest]
    /\ fileRun.raised = NewError(<<"fetch failed">>)
    /\ fileRun.result.returned
    /\ fileRun.result.isError

\* C23: getEntityEnum, getMaskingMethodEnum and getTranscriptionEnum return
\* the mapped enum value for every name their table declares and throw
\* "Invalid entity type: <name>", "Invalid masking method: <name>" or
\* "Invalid transcription type: <name>" for every other string.
C23_LookupOrThrow ==
    LET Holds(fn, enum, table, prefix) ==
            evaluated.fn = fn =>
                LET name == evaluated.args[1]
                    res == evaluated.result
                IN IF name \in table
                   THEN ~res.threw /\ res.value = EnumValue(enum, name)
                   ELSE res.threw /\ res.error = <<prefix, name>>
    IN /\ Holds("getEntityEnum", "DetectEntities", ENTITY_MAP,
                "Invalid entity type: ")
       /\ Holds("getMaskingMethodEnum", "MaskingMethod", MASKING_METHOD_MAP,
                "Invalid masking method: ")
       /\ Holds("getTranscriptionEnum", "DetectOutputTranscription",
                TRANSCRIPTION_MAP, "Invalid transcription type: ")

\* C24: isValidEntity is true exactly for the 69 declared names of
\* ENTITY_MAP, and getEntityEnum throws exactly when it is false.
C24_ValidExactlyDeclared ==
    /\ Cardinality(ENTITY_MAP) = 69
    /\ evaluated.fn = "isValidEntity" =>
          /\ evaluated.result.valid <=> evaluated.args[1] \in ENTITY_MAP
          /\ evaluated.result.getEntityEnum.threw <=> ~evaluated.result.valid

\* s occurs in u as a contiguous part.
Contains(u, s) ==
    \E i \in 1..(Len(u) - Len(s) + 1) : \A j \in 1..Len(s) : u[i + j - 1] = s[j]

\* C21: validateVaultConfig returns a config exactly when isValid and an
\* error exactly when not; in a returned config clusterId is non-empty, is
\* what extractClusterId derives from vaultUrl and stands in vaultUrl between
\* "https://" and ".vault", and the four other fields are the inputs.
C21_ConfigWellFormed ==
    evaluated.fn = "validateVaultConfig" =>
        LET params == evaluated.args[1]
            res == evaluated.result
            config == evaluated.result.config
        IN /\ config.defined <=> res.isValid
           /\ res.error # NoError <=> ~res.isValid
           /\ config.defined =>
                 /\ config.clusterId \notin {Undefined, S_Empty}
                 /\ config.clusterId = extractClusterId(params.vaultUrl)
                 /\ Contains(params.vaultUrl,
                             S_HttpsScheme \o config.clusterId \o S_DotVault)
                 /\ config.vaultId = params.vaultId
                 /\ config.vaultUrl = params.vaultUrl
                 /\ config.accountId = params.accountId
                 /\ config.workspaceId = params.workspaceId

\* A config was returned for a vaultUrl with a trailing path, with the
\* accountId given and the workspaceId absent.
C21_Witness ==
    /\ evaluated.fn = "validateVaultConfig"
    /\ evaluated.args[1].vaultUrl = S_HttpsScheme \o <<"c">> \o S_VaultHostPath
    /\ evaluated.result.isValid
    /\ evaluated.result.config.clusterId = <<"c">>
    /\ evaluated.result.config.accountId = S_A1
    /\ evaluated.result.config.workspaceId = Undefined

\* A parameter that was given: present and not the empty string.
Given(x) == x \notin {Undefined, S_Empty}

\* C22: in the /mcp handler each of vaultId, vaultUrl, accountId and
\* workspaceId is the query parameter when that is given and the environment
\* variable otherwise; the request is refused for a missing parameter exactly
\* when vaultId or vaultUrl is given in neither, with the message of the
\* first one missing, whatever accountId and workspaceId are.
C22_QueryThenEnvironment ==
    evaluated.fn = "mcpRoute" =>
        LET q == evaluated.args[1]
            e == evaluated.args[2]
            resolved == evaluated.result.resolved
            route == evaluated.result.route
            Pick(x, y) == IF Given(x) THEN x ELSE y
            noVaultId == ~Given(q.vaultId) /\ ~Given(e.VAULT_ID)
            noVaultUrl == ~Given(q.vaultUrl) /\ ~Given(e.VAULT_URL)
        IN /\ resolved.accountId = Pick(q.accountId, e.ACCOUNT_ID)
           /\ resolved.vaultId = Pick(q.vaultId, e.VAULT_ID)
           /\ resolved.vaultUrl = Pick(q.vaultUrl, e.VAULT_URL)
           /\ resolved.workspaceId = Pick(q.workspaceId, e.WORKSPACE_ID)
           /\ route.vaultId = resolved.vaultId
           /\ route.vaultUrl = resolved.vaultUrl
           /\ route.error = MsgVaultIdRequired <=> noVaultId
           /\ route.error = MsgVaultUrlRequired <=> ~noVaultId /\ noVaultUrl
           /\ route.status # 0 /\ route.error # MsgInvalidVaultUrl
                 => route.status = 400 /\ (noVaultId \/ noVaultUrl)

\* A request that gives vaultUrl in the query, takes vaultId from the
\* environment although the query names an empty one, has no accountId and
\* no workspaceId anywhere, and is accepted.
C22_Witness ==
    /\ evaluated.fn = "mcpRoute"
    /\ evaluated.args[1].vaultId = S_Empty
    /\ evaluated.args[1].accountId = Undefined
    /\ evaluated.args[2].ACCOUNT_ID = Undefined
    /\ evaluated.args[1].workspaceId = Undefined
    /\ evaluated.args[2].WORKSPACE_ID = Undefined
    /\ evaluated.args[2].VAULT_URL = S_UrlC0
    /\ evaluated.result.resolved.vaultId = S_V0
    /\ evaluated.result.resolved.vaultUrl = S_UrlC1
    /\ evaluated.result.resolved.accountId = Undefined
    /\ evaluated.result.route.status = 0

\* An apiKey parameter that carries a key: a string with at least one
\* non-whitespace character.
CarriesApiKey(k) == HasNonSpace(k)

\* C25: for every request each authenticateBearer middleware does exactly one
\* of two things: it attaches the extracted credentials and calls next once
\* without sending a response, or it sends one 401 response carrying the
\* extraction error, does not call next and attaches nothing.
C25_NextOrReject ==
    evaluated.fn = "authenticateBearer" =>
        LET req == evaluated.args[1]
            lib == evaluated.result.lib
            inline == evaluated.result.inline
            credentialed == CarriesBearer(req.authorization) \/ CarriesApiKey(req.apiKey)
            passes == /\ lib.nextCalls = 1
                      /\ lib.responses = << >>
                      /\ lib.attached
                      /\ lib.skyflowCredentials.defined
                      /\ IF CarriesBearer(req.authorization)
                         THEN lib.skyflowCredentials
                                  = TokenCredentials(Remainder(req.authorization))
                         ELSE lib.skyflowCredentials
                                  = ApiKeyCredentials(Stripped(req.apiKey))
            rejects == /\ lib.nextCalls = 0
                       /\ lib.responses
                              = << [status |-> 401, error |-> MsgMissingCredentials] >>
                       /\ ~lib.attached
                       /\ lib.skyflowCredentials = NoCredentials
            inlinePasses == /\ inline.next
                            /\ inline.status = 0
                            /\ inline.error = ""
                            /\ inline.bearerToken = Remainder(req.authorization)
            inlineRejects == /\ ~inline.next
                             /\ inline.status = 401
                             /\ inline.error \in {MsgMissingAuth, MsgEmptyBearer}
                             /\ inline.bearerToken = Undefined
        IN /\ IF credentialed THEN passes ELSE rejects
           /\ IF CarriesBearer(req.authorization) THEN inlinePasses ELSE inlineRejects

\* A request with no usable header and a usable apiKey: the middleware of
\* lib/middleware lets it pass and the inline one answers 401.
C25_Witness ==
    /\ evaluated.fn = "authenticateBearer"
    /\ evaluated.args[1].authorization = S_BearerPrefix \o <<" ">>
    /\ evaluated.args[1].apiKey = <<"k", " ">>
    /\ evaluated.result.lib.nextCalls = 1
    /\ evaluated.result.lib.skyflowCredentials = ApiKeyCredentials(<<"k">>)
    /\ evaluated.result.inline.status = 401

\* A request with neither: both middlewares answer 401.
C25_WitnessRejected ==
    /\ evaluated.fn = "authenticateBearer"
    /\ evaluated.args[1].authorization = Undefined
    /\ evaluated.args[1].apiKey = <<" ">>
    /\ evaluated.result.lib.nextCalls = 0
    /\ Len(evaluated.result.lib.responses) = 1

\* C26: what authenticateBearer logs does not depend on the value of the
\* credential: two requests that differ only in the contents of a valid
\* bearer token, or only in the contents of a valid apiKey, produce the same
\* log lines, and these say only whether each credential is present and
\* which kind was found.
C26_LogIndependentOfCredential ==
    evaluated.fn = "authenticateBearerTwice" =>
        LET req1 == evaluated.args[1]
            req2 == evaluated.args[2]
            log1 == evaluated.result[1].log
            log2 == evaluated.result[2].log
            bothBearer == /\ CarriesBearer(req1.authorization)
                          /\ CarriesBearer(req2.authorization)
                          /\ req2 = WithAuthorization(req1, req2.authorization)
            bothApiKey == /\ CarriesApiKey(req1.apiKey)
                          /\ CarriesApiKey(req2.apiKey)
                          /\ req2 = WithApiKey(req1, req2.apiKey)
        IN bothBearer \/ bothApiKey =>
              /\ log1 = log2
              /\ Len(log1) = 2
              /\ log1[1].data.authHeader \in {"present", "missing"}
              /\ log1[1].data.apiKeyQuery \in {"present", "missing"}
              /\ log1[1].data.authHeader = "present" <=> Given(req1.authorization)
              /\ log1[1].data.apiKeyQuery = "present" <=> Given(req1.apiKey)
              /\ log1[2].data = IF CarriesBearer(req1.authorization)
                                THEN "bearer token" ELSE "API key"

\* Two requests with different valid bearer tokens, and two with different
\* valid apiKeys behind the same unusable header, went through.
C26_Witness ==
    /\ evaluated.fn = "authenticateBearerTwice"
    /\ \/ /\ evaluated.args[1].authorization = S_BearerPrefix \o <<"a">>
          /\ evaluated.args[2].authorization = S_BearerPrefix \o <<"a", "a">>
          /\ evaluated.result[1].skyflowCredentials
                # evaluated.result[2].skyflowCredentials
       \/ /\ evaluated.args[1].authorization = Undefined
          /\ evaluated.args[1].apiKey = S_KeyK
          /\ evaluated.args[2].apiKey = <<"k", "k">>
          /\ evaluated.result[2].log[2].data = "API key"

\* C28: for every Authorization header the three bearer extractions (the
\* isPresent one, the isValid one and the middleware inlined in the server)
\* agree on accepting or refusing it, on the token extracted and on the
\* error message.
C28_ExtractionsAgree ==
    evaluated.fn = "bearerExtractions" =>
        LET a == evaluated.result.isPresent
            b == evaluated.result.isValid
            c == evaluated.result.inline
        IN /\ a.isPresent = b.isValid
           /\ a.isPresent = c.next
           /\ a.token = b.token
           /\ a.token = c.bearerToken
           /\ a.error = b.error
           /\ a.error = c.error

\* A header whose token has whitespace around it was accepted by all three.
C28_Witness ==
    /\ evaluated.fn = "bearerExtractions"
    /\ evaluated.args[1] = S_BearerPrefix \o <<" ", "a">>
    /\ evaluated.result.isPresent.isPresent
    /\ evaluated.result.isValid.token = <<" ", "a">>
    /\ evaluated.result.inline.next

\* C27: a request that fails both the credential check and the routing
\* check is answered 401 with a credential message and never 400, and the
\* route handler, which reads the routing parameters, is not entered for it.
C27_CredentialBeforeRoute ==
    \A r \in Reqs :
        /\ pc[r] # "idle"
        /\ ~CarriesBearer(input[r].auth)
        /\ ~RouteOk(r)
        => /\ pc[r] = "rejected"
           /\ status[r] = 401
           /\ status[r] # 400
           /\ errorMsg[r] \in {MsgMissingAuth, MsgEmptyBearer}
           /\ ~entered[r]

\* A request with an all-blank bearer token, no vaultId and an http
\* vaultUrl was answered 401.
C27_Witness ==
    \E r \in Reqs :
        /\ input[r] = [auth |-> S_BearerBlank, vaultId |-> Undefined,
                       vaultUrl |-> S_UrlHttp]
        /\ ~RouteOk(r)
        /\ pc[r] = "rejected"
        /\ status[r] = 401
        /\ errorMsg[r] = MsgEmptyBearer

\* C29: for every pair of resolved vaultId and vaultUrl the validation
\* inlined in the /mcp handler and validateVaultConfig agree on accepting or
\* refusing the pair, on the error message and on the clusterId derived.
C29_ValidationsAgree ==
    evaluated.fn = "routeValidations" =>
        LET inline == evaluated.result.inline
            lib == evaluated.result.lib
        IN /\ inline.status = 0 <=> lib.isValid
           /\ inline.status # 0 => inline.status = 400
           /\ inline.error = lib.error
           /\ inline.clusterId = lib.config.clusterId
           /\ lib.isValid => /\ inline.vaultId = lib.config.vaultId
                             /\ inline.vaultUrl = lib.config.vaultUrl

\* Both validations refused a pair with no vaultId and no vaultUrl with the
\* vaultId message, and both accepted a pair and derived "c".
C29_Witness ==
    /\ evaluated.fn = "routeValidations"
    /\ \/ /\ evaluated.args = << S_Empty, Undefined >>
          /\ evaluated.result.inline.error = MsgVaultIdRequired
          /\ evaluated.result.lib.error = MsgVaultIdRequired
       \/ /\ evaluated.args = << S_V1, S_HttpsScheme \o <<"c">> \o S_VaultHost >>
          /\ evaluated.result.inline.clusterId = <<"c">>
          /\ evaluated.result.lib.config.clusterId = <<"c">>

\* C30: the wait time the dehydrate_file handler passes to the external
\* service is always within 1..64: it is the caller's waitTime when one is
\* supplied and the default 64 when waitTime is omitted.
C30_WaitTimeWithinBounds ==
    fileRun.pc # "idle" /\ fileRun.call.issued =>
        LET supplied == fileRun.args.waitTime
            passed == fileRun.call.waitTime
        IN /\ passed \in 1..64
           /\ supplied.given => passed = supplied.value
           /\ ~supplied.given => passed = 64

\* The call was issued with waitTime omitted and carries the default.
C30_Witness ==
    /\ fileRun.pc = "awaiting"
    /\ fileRun.call.issued
    /\ ~fileRun.args.waitTime.given
    /\ fileRun.call.waitTime = 64

\* The call was issued with the lower bound of the schema supplied.
C30_WitnessSupplied ==
    /\ fileRun.pc = "awaiting"
    /\ fileRun.call.issued
    /\ fileRun.args.waitTime = WaitTime(1)
    /\ fileRun.call.waitTime = 1

====
